---- MODULE Spec2Model ----
(***************************************************************************)
(* A model of generate_csp.py (src/app.py): the crawler spider_and_audit,  *)
(* the link extractors, the resource classifier categorize_resource, the   *)
(* policy builder build_csp, and main with its two output files.           *)
(*                                                                         *)
(* Python strings are modelled as sequences of one-character strings, so   *)
(* that the regular expressions, urlparse, urljoin, the substring test     *)
(* and sorted() are computed on characters as the code computes them.      *)
(* The URLs of the model hold no whitespace, quote, angle bracket, ';',    *)
(* '[' or dot segment, and their schemes are lower case: on these          *)
(* urlparse never raises, splits no params off the path, and urljoin       *)
(* removes no segment.                                                     *)
(***************************************************************************)
EXTENDS Integers, Sequences, FiniteSets, TLC

VARIABLES web, base_url, max_pages, output_dir, domain, pc, visited, queue, external_urls, policy, files, fetched, failed, discarded, events, builds, calls, urls, csp_out, cls_url, cls_out

vars == <<web, base_url, max_pages, output_dir, domain, pc, visited, queue, external_urls, policy, files, fetched, failed, discarded, events, builds, calls, urls, csp_out, cls_url, cls_out>>

-----------------------------------------------------------------------------
(* Characters and strings                                                  *)

\* The printable ASCII characters in code point order, without the double quote, the backtick
\* and the backslash, which no string of the model holds.
Alphabet == <<" ", "!", "#", "$", "%", "&", "'", "(", ")", "*", "+", ",", "-", ".", "/", "0", "1", "2", "3", "4", "5", "6", "7", "8", "9", ":", ";", "<", "=", ">", "?", "@", "A", "B", "C", "D", "E", "F", "G", "H", "I", "J", "K", "L", "M", "N", "O", "P", "Q", "R", "S", "T", "U", "V", "W", "X", "Y", "Z", "[", "]", "^", "_", "a", "b", "c", "d", "e", "f", "g", "h", "i", "j", "k", "l", "m", "n", "o", "p", "q", "r", "s", "t", "u", "v", "w", "x", "y", "z", "{", "|", "}", "~">>

\* The rank of c in code point order: Python compares strings code point by code point.
Ord(c) == CHOOSE i \in DOMAIN Alphabet : Alphabet[i] = c

Letters == {"A", "B", "C", "D", "E", "F", "G", "H", "I", "J", "K", "L", "M", "N", "O", "P", "Q", "R", "S", "T", "U", "V", "W", "X", "Y", "Z", "a", "b", "c", "d", "e", "f", "g", "h", "i", "j", "k", "l", "m", "n", "o", "p", "q", "r", "s", "t", "u", "v", "w", "x", "y", "z"}

Digits == {"0", "1", "2", "3", "4", "5", "6", "7", "8", "9"}

\* s[i:] of Python, with i a 1-based index.
From(s, i) == SubSeq(s, i, Len(s))

\* s.startswith(p, i-1) of Python.
StartsWithAt(s, p, i) == i >= 1 /\ i + Len(p) - 1 <= Len(s) /\ SubSeq(s, i, i + Len(p) - 1) = p

\* `a in b` of Python strings: a occurs in b as a substring.
Contains(b, a) == \E i \in 1..(Len(b) + 1) : StartsWithAt(b, a, i)

\* The index of the first character of s at or after `from` that is in cs, Len(s)+1 if none.
FirstIndex(s, cs, from) == LET I == {i \in from..Len(s) : s[i] \in cs} IN IF I = {} THEN Len(s) + 1 ELSE CHOOSE i \in I : \A j \in I : i <= j

\* a < b of Python strings.
StrLess(a, b) == \E i \in 1..(Len(a) + 1) : /\ i <= Len(b)
                                            /\ SubSeq(a, 1, i - 1) = SubSeq(b, 1, i - 1)
                                            /\ (i > Len(a) \/ Ord(a[i]) < Ord(b[i]))

\* sorted(list(v)) of a set of strings: the element at index i is the one with
\* i - 1 smaller elements.
sorted(S) == [i \in 1..Cardinality(S) |-> CHOOSE x \in S : Cardinality({y \in S : StrLess(y, x)}) = i - 1]

-----------------------------------------------------------------------------
(* String constants of the program and of the modelled webs                *)

\* "script-src"
SCRIPT_SRC == <<"s", "c", "r", "i", "p", "t", "-", "s", "r", "c">>

\* "style-src"
STYLE_SRC == <<"s", "t", "y", "l", "e", "-", "s", "r", "c">>

\* "font-src"
FONT_SRC == <<"f", "o", "n", "t", "-", "s", "r", "c">>

\* "img-src"
IMG_SRC == <<"i", "m", "g", "-", "s", "r", "c">>

\* "connect-src"
CONNECT_SRC == <<"c", "o", "n", "n", "e", "c", "t", "-", "s", "r", "c">>

\* "default-src"
DEFAULT_SRC == <<"d", "e", "f", "a", "u", "l", "t", "-", "s", "r", "c">>

\* "'self'"
SELF == <<"'", "s", "e", "l", "f", "'">>

\* "://"
SchemeSep == <<":", "/", "/">>

\* "https://example.com"
ExampleSeed == <<"h", "t", "t", "p", "s", ":", "/", "/", "e", "x", "a", "m", "p", "l", "e", ".", "c", "o", "m">>

\* "https://example.com/page2"
ExamplePage2 == <<"h", "t", "t", "p", "s", ":", "/", "/", "e", "x", "a", "m", "p", "l", "e", ".", "c", "o", "m", "/", "p", "a", "g", "e", "2">>

\* "https://cdn.other.com/a.js"
CdnAJs == <<"h", "t", "t", "p", "s", ":", "/", "/", "c", "d", "n", ".", "o", "t", "h", "e", "r", ".", "c", "o", "m", "/", "a", ".", "j", "s">>

\* "https://img.other.com/b.png"
ImgBPng == <<"h", "t", "t", "p", "s", ":", "/", "/", "i", "m", "g", ".", "o", "t", "h", "e", "r", ".", "c", "o", "m", "/", "b", ".", "p", "n", "g">>

\* "https://fonts.other.com/c.woff2"
FontsCWoff2 == <<"h", "t", "t", "p", "s", ":", "/", "/", "f", "o", "n", "t", "s", ".", "o", "t", "h", "e", "r", ".", "c", "o", "m", "/", "c", ".", "w", "o", "f", "f", "2">>

\* "https://notexample.com/x.js"
NotExampleXJs == <<"h", "t", "t", "p", "s", ":", "/", "/", "n", "o", "t", "e", "x", "a", "m", "p", "l", "e", ".", "c", "o", "m", "/", "x", ".", "j", "s">>

\* "https://notexample.com/"
NotExampleHome == <<"h", "t", "t", "p", "s", ":", "/", "/", "n", "o", "t", "e", "x", "a", "m", "p", "l", "e", ".", "c", "o", "m", "/">>

\* "/about?x=1#top"
AboutRef == <<"/", "a", "b", "o", "u", "t", "?", "x", "=", "1", "#", "t", "o", "p">>

\* "https://example.com/about"
ExampleAbout == <<"h", "t", "t", "p", "s", ":", "/", "/", "e", "x", "a", "m", "p", "l", "e", ".", "c", "o", "m", "/", "a", "b", "o", "u", "t">>

\* "https://api.other.com/data.json"
ApiDataJson == <<"h", "t", "t", "p", "s", ":", "/", "/", "a", "p", "i", ".", "o", "t", "h", "e", "r", ".", "c", "o", "m", "/", "d", "a", "t", "a", ".", "j", "s", "o", "n">>

\* "hello"
PlainText == <<"h", "e", "l", "l", "o">>

\* "http://a.io/"
LoopSeed == <<"h", "t", "t", "p", ":", "/", "/", "a", ".", "i", "o", "/">>

\* "http://a.io/b"
LoopB == <<"h", "t", "t", "p", ":", "/", "/", "a", ".", "i", "o", "/", "b">>

\* "http://a.io/c"
LoopC == <<"h", "t", "t", "p", ":", "/", "/", "a", ".", "i", "o", "/", "c">>

\* "http://a.io/d/p"
LoopDP == <<"h", "t", "t", "p", ":", "/", "/", "a", ".", "i", "o", "/", "d", "/", "p">>

\* "http://a.io/d/q"
LoopDQ == <<"h", "t", "t", "p", ":", "/", "/", "a", ".", "i", "o", "/", "d", "/", "q">>

\* "http://a.io/q"
LoopQ == <<"h", "t", "t", "p", ":", "/", "/", "a", ".", "i", "o", "/", "q">>

\* "/"
RefRoot == <<"/">>

\* "/b"
RefB == <<"/", "b">>

\* "/c"
RefC == <<"/", "c">>

\* "d/p"
RefDP == <<"d", "/", "p">>

\* "q"
RefQ == <<"q">>

\* "http://x.net/s.css"
XNetCss == <<"h", "t", "t", "p", ":", "/", "/", "x", ".", "n", "e", "t", "/", "s", ".", "c", "s", "s">>

\* "https://x.net/t.css"
XNetCssSecure == <<"h", "t", "t", "p", "s", ":", "/", "/", "x", ".", "n", "e", "t", "/", "t", ".", "c", "s", "s">>

\* "example.com"
HostExample == <<"e", "x", "a", "m", "p", "l", "e", ".", "c", "o", "m">>

\* "cdn.other.com"
HostCdn == <<"c", "d", "n", ".", "o", "t", "h", "e", "r", ".", "c", "o", "m">>

\* "img.other.com"
HostImg == <<"i", "m", "g", ".", "o", "t", "h", "e", "r", ".", "c", "o", "m">>

\* "fonts.other.com"
HostFonts == <<"f", "o", "n", "t", "s", ".", "o", "t", "h", "e", "r", ".", "c", "o", "m">>

\* "notexample.com"
HostNotExample == <<"n", "o", "t", "e", "x", "a", "m", "p", "l", "e", ".", "c", "o", "m">>

\* "api.other.com"
HostApi == <<"a", "p", "i", ".", "o", "t", "h", "e", "r", ".", "c", "o", "m">>

\* "a.io"
HostLoop == <<"a", ".", "i", "o">>

\* "x.net"
HostXNet == <<"x", ".", "n", "e", "t">>

-----------------------------------------------------------------------------
(* urllib.parse                                                            *)

SchemeChars == Letters \cup Digits \cup {"+", "-", "."}

\* Whether url begins with a scheme: a letter, then scheme characters, up to the first ':'.
HasScheme(url) == LET i == FirstIndex(url, {":"}, 1) IN i > 1 /\ i <= Len(url) /\ url[1] \in Letters /\ \A j \in 1..(i - 1) : url[j] \in SchemeChars

\* The scheme of url, empty if it has none.
SchemeOf(url) == IF HasScheme(url) THEN SubSeq(url, 1, FirstIndex(url, {":"}, 1) - 1) ELSE <<>>

\* What follows the scheme and its ':' in url.
AfterScheme(url) == IF HasScheme(url) THEN From(url, FirstIndex(url, {":"}, 1) + 1) ELSE url

\* The netloc of a URL without its scheme: what stands between a leading "//" and the next '/', '?' or '#'.
NetlocOf(rest) == IF StartsWithAt(rest, <<"/", "/">>, 1) THEN SubSeq(rest, 3, FirstIndex(rest, {"/", "?", "#"}, 3) - 1) ELSE <<>>

\* What follows the netloc.
AfterNetloc(rest) == IF StartsWithAt(rest, <<"/", "/">>, 1) THEN From(rest, FirstIndex(rest, {"/", "?", "#"}, 3)) ELSE rest

\* s up to its first c, and s after it.
Before(s, c) == SubSeq(s, 1, FirstIndex(s, {c}, 1) - 1)

After(s, c) == From(s, FirstIndex(s, {c}, 1) + 1)

\* The parts of a URL of the given scheme and netloc: the fragment is split off at
\* the first '#', then the query at the first '?'.
SplitTail(scheme, netloc, tail) == [scheme |-> scheme, netloc |-> netloc, path |-> Before(Before(tail, "#"), "?"), query |-> After(Before(tail, "#"), "?"), fragment |-> After(tail, "#")]

\* urlparse(url): scheme, netloc, path, query and fragment of url.
urlparse(url) == SplitTail(SchemeOf(url), NetlocOf(AfterScheme(url)), AfterNetloc(AfterScheme(url)))

\* urlunparse(parts): the URL string of the parts.
urlunparse(p) == (IF p.netloc # <<>> THEN p.scheme \o SchemeSep \o p.netloc ELSE IF p.scheme # <<>> THEN p.scheme \o <<":">> ELSE <<>>) \o p.path \o (IF p.query # <<>> THEN <<"?">> \o p.query ELSE <<>>) \o (IF p.fragment # <<>> THEN <<"#">> \o p.fragment ELSE <<>>)

\* The directory of a base path: the path up to and including its last '/', "/" for an empty path.
BaseDir(bpath) == LET I == {i \in 1..Len(bpath) : bpath[i] = "/"} IN IF I = {} THEN <<"/">> ELSE SubSeq(bpath, 1, CHOOSE i \in I : \A j \in I : j <= i)

\* The parts of a reference u of the base's scheme, resolved against the parts b
\* of the base: a reference with a netloc stands; one without a path keeps the
\* base's path, and its query unless it has one; a path starting with '/'
\* replaces the base's path; any other path is taken in the base's directory.
Resolved(b, u) == IF u.netloc # <<>> THEN [u EXCEPT !.scheme = b.scheme]
                  ELSE IF u.path = <<>> THEN [b EXCEPT !.query = IF u.query = <<>> THEN b.query ELSE u.query, !.fragment = u.fragment]
                  ELSE IF u.path[1] = "/" THEN [u EXCEPT !.scheme = b.scheme, !.netloc = b.netloc]
                  ELSE [u EXCEPT !.scheme = b.scheme, !.netloc = b.netloc, !.path = BaseDir(b.path) \o u.path]

\* urljoin with both URLs parsed: a reference of another scheme is returned as it is.
JoinParsed(b, u, url) == IF u.scheme # <<>> /\ u.scheme # b.scheme THEN url ELSE urlunparse(Resolved(b, u))

\* urljoin(base, url): url resolved against base.
urljoin(base, url) == IF base = <<>> THEN url ELSE IF url = <<>> THEN base ELSE JoinParsed(urlparse(base), urlparse(url), url)

-----------------------------------------------------------------------------
(* HTML                                                                    *)
(* A page's text is a sequence of elements in document order: a tag with   *)
(* one attribute and its value, or a run of raw text (tag "text", for      *)
(* instance the body of an inline script). The empty sequence is the       *)
(* empty string.                                                           *)

Element(tag, attr, val) == [tag |-> tag, attr |-> attr, val |-> val]

\* soup.find_all(['a', 'link', 'script', 'img', 'iframe'])
LinkTags == {"a", "link", "script", "img", "iframe"}

\* 'href' if tag.name in ['a', 'link'] else 'src'
LinkAttr(tag) == IF tag \in {"a", "link"} THEN "href" ELSE "src"

\* The cleaned URL, scheme://netloc/path, of a parsed URL whose netloc is domain.
\* The host test done by substring: a link is kept if its netloc contains the domain.
CleanedIfContains(parsed, dom) == IF Contains(parsed.netloc, dom) THEN {parsed.scheme \o SchemeSep \o parsed.netloc \o parsed.path} ELSE {}

CleanedIfInternal(parsed, dom) == IF parsed.netloc = dom THEN {parsed.scheme \o SchemeSep \o parsed.netloc \o parsed.path} ELSE {}

\* The internal link an element contributes: the cleaned URL when it is a link tag
\* with a reference in its attribute that, resolved against base_url, has netloc
\* equal to domain; the empty set otherwise.
InternalLinkOf(e, base, dom) == IF e.tag \in LinkTags /\ e.attr = LinkAttr(e.tag) /\ e.val # <<>> THEN CleanedIfInternal(urlparse(urljoin(base, e.val)), dom) ELSE {}

\* extract_internal_links(html, base_url, domain)
extract_internal_links(html, base, dom) == UNION {InternalLinkOf(html[i], base, dom) : i \in DOMAIN html}

\* The matches of https?://[^\s"'<>]+ in one attribute value or text run: the
\* value holds none of the excluded characters, so a match runs from the leftmost
\* "http://" or "https://" that a character follows to the end of the value.
UrlMatches(val) == LET I == {i \in 1..Len(val) : \/ StartsWithAt(val, <<"h", "t", "t", "p">> \o SchemeSep, i) /\ i + 7 <= Len(val)
                                                 \/ StartsWithAt(val, <<"h", "t", "t", "p", "s">> \o SchemeSep, i) /\ i + 8 <= Len(val)}
                   IN IF I = {} THEN {} ELSE {From(val, CHOOSE i \in I : \A j \in I : i <= j)}

\* re.findall(r'https?://[^\s"\'<>]+', html)
findall_urls(html) == UNION {UrlMatches(html[i].val) : i \in DOMAIN html}

\* The test that keeps a match as external: a netloc that base_domain is not a substring of.
\* The test without the base domain: every URL with a host counts as external.
IsExternalAnyHost(netloc, base_domain) == netloc # <<>>

\* parsed.netloc and base_domain not in parsed.netloc
IsExternal(netloc, base_domain) == netloc # <<>> /\ ~Contains(netloc, base_domain)

\* External URLs taken from the link tags only, not from the raw text.
ExternalFromTagsOnly(html, base_domain) == {m \in UNION {UrlMatches(html[i].val) : i \in {j \in DOMAIN html : html[j].tag \in LinkTags}} : IsExternal(urlparse(m).netloc, base_domain)}

\* extract_external_urls(html, base_domain)
extract_external_urls(html, base_domain) == {m \in findall_urls(html) : IsExternal(urlparse(m).netloc, base_domain)}

-----------------------------------------------------------------------------
(* categorize_resource                                                     *)

\* The search without the (\?|$) alternative for a query: the extension only at the end of url.
SearchExtEndOnly(exts, url) == \E e \in exts : \E i \in 1..Len(url) : StartsWithAt(url, <<".">> \o e, i) /\ i + Len(e) + 1 > Len(url)

\* re.search(r'\.(e1|e2|...)(\?|$)', url): a '.', one of exts, then '?' or the end of url.
SearchExt(exts, url) == \E e \in exts : \E i \in 1..Len(url) : StartsWithAt(url, <<".">> \o e, i) /\ (i + Len(e) + 1 > Len(url) \/ url[i + Len(e) + 1] = "?")

JsExts == {<<"j", "s">>}

CssExts == {<<"c", "s", "s">>}

FontExts == {<<"w", "o", "f", "f">>, <<"w", "o", "f", "f", "2">>, <<"t", "t", "f">>, <<"o", "t", "f">>}

ImgExts == {<<"j", "p", "g">>, <<"j", "p", "e", "g">>, <<"p", "n", "g">>, <<"g", "i", "f">>, <<"s", "v", "g">>, <<"w", "e", "b", "p">>}

JsonExts == {<<"j", "s", "o", "n">>}

categorize_resource(url) == IF SearchExt(JsExts, url) THEN SCRIPT_SRC
                            ELSE IF SearchExt(CssExts, url) THEN STYLE_SRC
                            ELSE IF SearchExt(FontExts, url) THEN FONT_SRC
                            ELSE IF SearchExt(ImgExts, url) THEN IMG_SRC
                            ELSE IF SearchExt(JsonExts, url) THEN CONNECT_SRC
                            ELSE DEFAULT_SRC

-----------------------------------------------------------------------------
(* build_csp                                                               *)
(* A dict is a sequence of <<key, value>> items in insertion order.        *)

DictKeys(dict) == {dict[i][1] : i \in DOMAIN dict}

DictGet(dict, k) == dict[CHOOSE i \in DOMAIN dict : dict[i][1] = k][2]

\* The directive's set overwritten instead of added to: csp[directive] = {domain}.
CspAddOverwrite(csp, directive, dom) == IF directive \in DictKeys(csp)
                                        THEN [i \in DOMAIN csp |-> IF csp[i][1] = directive THEN <<directive, {dom}>> ELSE csp[i]]
                                        ELSE Append(csp, <<directive, {dom}>>)

\* csp[directive].add(domain) on a defaultdict(set)
CspAdd(csp, directive, dom) == IF directive \in DictKeys(csp)
                               THEN [i \in DOMAIN csp |-> IF csp[i][1] = directive THEN <<directive, csp[i][2] \cup {dom}>> ELSE csp[i]]
                               ELSE Append(csp, <<directive, {dom}>>)

\* The first loop of build_csp, over the URLs in the order the set yields them.
RECURSIVE Classified(_, _)
Classified(order, csp) == IF order = <<>> THEN csp
                          ELSE Classified(Tail(order), CspAdd(csp, categorize_resource(Head(order)), urlparse(Head(order)).netloc))

\* The second loop left out: no 'self' is added.
AddSelfOmitted(csp) == csp

\* The second loop of build_csp: csp[directive].add("'self'")
AddSelf(csp) == [i \in DOMAIN csp |-> <<csp[i][1], csp[i][2] \cup {SELF}>>]

\* return {k: sorted(list(v)) for k, v in csp.items()}
SortedValues(csp) == [i \in DOMAIN csp |-> <<csp[i][1], sorted(csp[i][2])>>]

\* build_csp(urls), urls iterated in the given order.
build_csp(order) == SortedValues(AddSelf(Classified(order, <<>>)))

\* The orders a set can be iterated in: its enumerations without repetition.
RECURSIVE Orders(_)
Orders(S) == IF S = {} THEN {<<>>} ELSE UNION {{<<x>> \o o : o \in Orders(S \ {x})} : x \in S}

-----------------------------------------------------------------------------
(* The webs the crawler is run on: each maps the URLs that answer with a   *)
(* page to the page's text. Any other URL fails to fetch.                  *)

\* example.com with two pages: the seed page loads a script and an image from
\* other hosts and links to page2; page2 names a font of a third host.
EndToEndWeb == (ExampleSeed :> <<Element("script", "src", CdnAJs), Element("img", "src", ImgBPng), Element("a", "href", ExamplePage2)>>) @@ (ExamplePage2 :> <<Element("text", "", FontsCWoff2)>>)

\* example.com whose seed page loads a script from notexample.com and links to
\* it, and links to /about with a query and a fragment.
BoundaryWeb == (ExampleSeed :> <<Element("script", "src", NotExampleXJs), Element("a", "href", NotExampleHome), Element("a", "href", AboutRef)>>) @@ (ExampleAbout :> <<Element("text", "", ApiDataJson)>>) @@ (NotExampleHome :> <<Element("text", "", PlainText)>>)

\* a.io: /, /b and /c link to each other and to themselves; / links to d/p,
\* whose page holds the relative link q; /d/q is a page, /q answers with an
\* empty body.
LoopWeb == (LoopSeed :> <<Element("a", "href", RefRoot), Element("a", "href", RefB), Element("a", "href", RefC), Element("a", "href", RefDP)>>) @@ (LoopB :> <<Element("a", "href", RefC), Element("a", "href", RefRoot), Element("a", "href", RefB), Element("link", "href", XNetCss)>>) @@ (LoopC :> <<Element("a", "href", RefRoot), Element("a", "href", RefB), Element("a", "href", RefC), Element("link", "href", XNetCssSecure)>>) @@ (LoopDP :> <<Element("a", "href", RefQ), Element("a", "href", RefRoot)>>) @@ (LoopDQ :> <<Element("text", "", PlainText)>>) @@ (LoopQ :> <<>>)

Webs == <<EndToEndWeb, BoundaryWeb, LoopWeb>>

\* The --url arguments tried on each web.
Seeds == <<{ExampleSeed}, {ExampleSeed}, {LoopSeed, LoopB}>>

\* The largest --max-pages tried, besides the default.
MaxBudget == 3

\* max_pages=25, the default of --max-pages
DefaultMaxPages == 25

Budgets == (0..MaxBudget) \cup {DefaultMaxPages}

\* The number of spider_and_audit calls one process makes under SpecReuse.
MaxCalls == 2

\* --output-dir: its default, and a path under which no directory can be made.
DefaultOutputDir == "./csp_results"

UncreatableDir == "/dev/null/csp_results"

OutputDirs == {DefaultOutputDir, UncreatableDir}

\* Whether os.makedirs(dir, exist_ok=True) succeeds.
Creatable(dir) == dir # UncreatableDir

-----------------------------------------------------------------------------
(* fetch_html                                                              *)

None == <<>>

Some(text) == <<text>>

\* fetch_html(url): the page's text when the request succeeds with an ok status,
\* None on an exception, a timeout or a status that is not ok.
fetch_html(url) == {None} \cup (IF url \in DOMAIN Webs[web] THEN {Some(Webs[web][url])} ELSE {})

\* `not html`: None or the empty string.
Falsy(html) == IF html = None THEN TRUE ELSE html[1] = <<>>

-----------------------------------------------------------------------------
(* spider_and_audit                                                        *)

Init == /\ web \in DOMAIN Webs
        /\ base_url \in Seeds[web]
        /\ max_pages \in Budgets
        /\ output_dir = DefaultOutputDir
        /\ pc = "main"
        /\ visited = {}
        /\ domain = <<>>
        /\ queue = <<>>
        /\ external_urls = {}
        /\ policy = <<>>
        /\ files = {}
        /\ fetched = <<>>
        /\ failed = {}
        /\ discarded = <<>>
        /\ events = <<>>
        /\ builds = 0
        /\ calls = 0
        /\ urls = {}
        /\ csp_out = <<>>
        /\ cls_url = <<>>
        /\ cls_out = <<>>

Pure == <<urls, csp_out, cls_url, cls_out>>

Args == <<web, base_url, max_pages, output_dir>>

\* The entry of spider_and_audit, up to the loop.
Enter == /\ pc = "main"
         /\ domain' = urlparse(base_url).netloc
         /\ queue' = <<base_url>>
         /\ external_urls' = {}
         /\ pc' = "loop"
         /\ calls' = calls + 1
         /\ fetched' = <<>>
         /\ failed' = {}
         /\ discarded' = <<>>
         /\ events' = <<>>
         /\ UNCHANGED <<Args, visited, policy, files, builds, Pure>>

\* The loop condition with the bound off by one: len(visited) <= max_pages.
LoopCondOffByOne == queue # <<>> /\ Cardinality(visited) <= max_pages

\* The loop condition that gives up one page early: len(visited) < max_pages - 1.
LoopCondEarly == queue # <<>> /\ Cardinality(visited) < max_pages - 1

\* while queue and len(visited) < max_pages
LoopCond == queue # <<>> /\ Cardinality(visited) < max_pages

\* The visited test left out: no popped URL is discarded.
NeverVisited(url) == FALSE

\* if url in visited: continue
AlreadyVisited(url) == url \in visited

\* An iteration that pops a URL already in visited and discards it.
Discard == /\ pc = "loop"
           /\ LoopCond
           /\ AlreadyVisited(Head(queue))
           /\ discarded' = Append(discarded, Head(queue))
           /\ queue' = Tail(queue)
           /\ UNCHANGED <<Args, domain, pc, visited, external_urls, policy, files, fetched, failed, events, builds, calls, Pure>>

\* A failed fetch that is not caught: the exception leaves spider_and_audit.
FetchFailedRaises == /\ pc = "loop"
                     /\ LoopCond
                     /\ Head(queue) \notin visited
                     /\ visited' = visited \cup {Head(queue)}
                     /\ fetched' = Append(fetched, Head(queue))
                     /\ failed' = failed \cup {Head(queue)}
                     /\ events' = Append(events, "fetch")
                     /\ pc' = "raised"
                     /\ UNCHANGED <<Args, domain, queue, external_urls, policy, files, discarded, builds, calls, Pure>>

\* An iteration whose fetch yields nothing: the URL is marked visited and skipped.
FetchFailed == /\ pc = "loop"
               /\ LoopCond
               /\ ~AlreadyVisited(Head(queue))
               /\ \E html \in fetch_html(Head(queue)) : Falsy(html)
               /\ visited' = visited \cup {Head(queue)}
               /\ fetched' = Append(fetched, Head(queue))
               /\ failed' = failed \cup {Head(queue)}
               /\ queue' = Tail(queue)
               /\ events' = Append(events, "fetch")
               /\ UNCHANGED <<Args, domain, pc, external_urls, policy, files, discarded, builds, calls, Pure>>

\* The visited links not taken out: queue.extend(internal).
NewLinksAll(internal, seen) == internal

\* queue.extend(internal - visited): the links not in visited.
NewLinks(internal, seen) == internal \ seen

\* The links put in front of the queue instead of at its back.
ExtendFront(q, links) == links \o q

\* queue.extend(links): the links go to the back of the queue.
Extend(q, links) == q \o links

\* An iteration whose fetch yields a page: its external URLs are collected,
\* its internal links not in visited are appended, in the order the set yields
\* them, and sleep(0.5) is called.
FetchedPage == /\ pc = "loop"
               /\ LoopCond
               /\ ~AlreadyVisited(Head(queue))
               /\ \E html \in fetch_html(Head(queue)) :
                     /\ ~Falsy(html)
                     /\ visited' = visited \cup {Head(queue)}
                     /\ fetched' = Append(fetched, Head(queue))
                     /\ external_urls' = external_urls \cup extract_external_urls(html[1], domain)
                     /\ \E order \in Orders(NewLinks(extract_internal_links(html[1], base_url, domain), visited')) : queue' = Extend(Tail(queue), order)
               /\ events' = events \o <<"fetch", "sleep">>
               /\ UNCHANGED <<Args, domain, pc, policy, files, failed, discarded, builds, calls, Pure>>

\* The loop ends and build_csp(external_urls) is returned.
Return == /\ pc = "loop"
          /\ ~LoopCond
          /\ \E order \in Orders(external_urls) : policy' = build_csp(order)
          /\ builds' = builds + 1
          /\ pc' = "done"
          /\ UNCHANGED <<Args, domain, visited, queue, external_urls, files, fetched, failed, discarded, events, calls, Pure>>

Next == Enter \/ Discard \/ FetchFailed \/ FetchedPage \/ Return

\* One run of the program: main calls spider_and_audit once.
Spec == Init /\ [][Next]_vars

\* The crawl is sequential code that runs to its end: a step of Next is taken
\* whenever one is enabled. Next is enabled exactly when pc # "done" (Enter at
\* "main"; in the loop Return when LoopCond is false, else Discard or, as
\* fetch_html always has the outcome None, FetchFailed), so the weak fairness
\* of Next, WF_vars(Next), is stated here with ENABLED <<Next>>_vars written
\* out as pc # "done".
FairSpec == Init /\ [][Next]_vars /\ ([]<>(pc = "done") \/ []<><<Next>>_vars)

\* A process that calls spider_and_audit again after it has returned.
CallAgain == /\ pc = "done"
             /\ calls < MaxCalls
             /\ base_url' \in Seeds[web]
             /\ max_pages' \in Budgets
             /\ pc' = "main"
             /\ UNCHANGED <<web, output_dir, domain, visited, queue, external_urls, policy, files, fetched, failed, discarded, events, builds, calls, Pure>>

NextReuse == Next \/ CallAgain

SpecReuse == Init /\ [][NextReuse]_vars

-----------------------------------------------------------------------------
(* main: the crawl, then the output directory and the two files.           *)

\* "notaurl": a --url value with no scheme and no host. argparse accepts any
\* string; requests.get raises MissingSchema on it, inside fetch_html's try.
NotAUrl == <<"n", "o", "t", "a", "u", "r", "l">>

\* The arguments main is run with: any string as --url, any path as --output-dir.
InitMain == /\ web \in DOMAIN Webs
            /\ base_url \in Seeds[web] \cup {NotAUrl}
            /\ max_pages \in Budgets
            /\ output_dir \in OutputDirs
            /\ pc = "main"
            /\ visited = {}
            /\ domain = <<>>
            /\ queue = <<>>
            /\ external_urls = {}
            /\ policy = <<>>
            /\ files = {}
            /\ fetched = <<>>
            /\ failed = {}
            /\ discarded = <<>>
            /\ events = <<>>
            /\ builds = 0
            /\ calls = 0
            /\ urls = {}
            /\ csp_out = <<>>
            /\ cls_url = <<>>
            /\ cls_out = <<>>

\* What the steps of main after the crawl leave alone.
CrawlResult == <<Args, domain, visited, queue, external_urls, policy, fetched, failed, discarded, events, builds, calls, Pure>>

\* os.makedirs(args.output_dir, exist_ok=True) succeeds.
MakeDirs == /\ pc = "done"
            /\ Creatable(output_dir)
            /\ pc' = "dirs"
            /\ UNCHANGED <<CrawlResult, files>>

\* os.makedirs raises OSError: main ends with the exception.
MakeDirsRaises == /\ pc = "done"
                  /\ ~Creatable(output_dir)
                  /\ pc' = "raised"
                  /\ UNCHANGED <<CrawlResult, files>>

\* write_json(csp, json_path): the dictionary is dumped in the order of its items.
WriteJson == /\ pc = "dirs"
             /\ files' = files \cup {<<"csp_policy.json", policy>>}
             /\ pc' = "json"
             /\ UNCHANGED CrawlResult

\* The header value of web.config: one "k v1 v2 ...;" segment for each item of
\* the dictionary, in the order of its items; a segment is held as its words.
csp_string(csp_dict) == [i \in DOMAIN csp_dict |-> <<csp_dict[i][1]>> \o csp_dict[i][2]]

\* write_web_config(csp, webconfig_path), after which main prints and returns.
WriteWebConfig == /\ pc = "json"
                  /\ files' = files \cup {<<"web.config", csp_string(policy)>>}
                  /\ pc' = "exit"
                  /\ UNCHANGED CrawlResult

NextMain == Next \/ MakeDirs \/ MakeDirsRaises \/ WriteJson \/ WriteWebConfig

\* One run of the program from its arguments to its exit.
SpecMain == InitMain /\ [][NextMain]_vars

-----------------------------------------------------------------------------
(* categorize_resource on its own: a URL is drawn and classified.          *)

\* "https://x.example.com/a"
ClassifyStem == <<"h", "t", "t", "p", "s", ":", "/", "/", "x", ".", "e", "x", "a", "m", "p", "l", "e", ".", "c", "o", "m", "/", "a">>

\* The extensions tried: "" and each of .js .css .woff .woff2 .ttf .otf .jpg .jpeg .png .gif .svg .webp .json .jsx .JS .wof .html
ClassifyExts == {<<>>, <<".", "j", "s">>, <<".", "c", "s", "s">>, <<".", "w", "o", "f", "f">>, <<".", "w", "o", "f", "f", "2">>, <<".", "t", "t", "f">>, <<".", "o", "t", "f">>, <<".", "j", "p", "g">>, <<".", "j", "p", "e", "g">>, <<".", "p", "n", "g">>, <<".", "g", "i", "f">>, <<".", "s", "v", "g">>, <<".", "w", "e", "b", "p">>, <<".", "j", "s", "o", "n">>, <<".", "j", "s", "x">>, <<".", "J", "S">>, <<".", "w", "o", "f">>, <<".", "h", "t", "m", "l">>}

\* What follows the extension: "" and each of ?v=2 ?f=b.css .js #top /b ?u=c.js
ClassifyTails == {<<>>, <<"?", "v", "=", "2">>, <<"?", "f", "=", "b", ".", "c", "s", "s">>, <<".", "j", "s">>, <<"#", "t", "o", "p">>, <<"/", "b">>, <<"?", "u", "=", "c", ".", "j", "s">>}

\* "https://cdn.example.com/app.js"
ExAppJs == <<"h", "t", "t", "p", "s", ":", "/", "/", "c", "d", "n", ".", "e", "x", "a", "m", "p", "l", "e", ".", "c", "o", "m", "/", "a", "p", "p", ".", "j", "s">>

\* "https://cdn.example.com/app.js?v=2"
ExAppJsQuery == <<"h", "t", "t", "p", "s", ":", "/", "/", "c", "d", "n", ".", "e", "x", "a", "m", "p", "l", "e", ".", "c", "o", "m", "/", "a", "p", "p", ".", "j", "s", "?", "v", "=", "2">>

\* "https://fonts.example.com/a.woff2"
ExWoff2 == <<"h", "t", "t", "p", "s", ":", "/", "/", "f", "o", "n", "t", "s", ".", "e", "x", "a", "m", "p", "l", "e", ".", "c", "o", "m", "/", "a", ".", "w", "o", "f", "f", "2">>

\* "https://x.example.com/data.json"
ExDataJson == <<"h", "t", "t", "p", "s", ":", "/", "/", "x", ".", "e", "x", "a", "m", "p", "l", "e", ".", "c", "o", "m", "/", "d", "a", "t", "a", ".", "j", "s", "o", "n">>

\* "https://x.example.com/page"
ExPage == <<"h", "t", "t", "p", "s", ":", "/", "/", "x", ".", "e", "x", "a", "m", "p", "l", "e", ".", "c", "o", "m", "/", "p", "a", "g", "e">>

ClassifyPool == {ClassifyStem \o e \o t : e \in ClassifyExts, t \in ClassifyTails} \cup {ExAppJs, ExAppJsQuery, ExWoff2, ExDataJson, ExPage}

Crawl == <<web, base_url, max_pages, output_dir, domain, visited, queue, external_urls, policy, files, fetched, failed, discarded, events, builds, calls>>

InitClassify == /\ web = 1
                /\ base_url = ExampleSeed
                /\ max_pages = DefaultMaxPages
                /\ output_dir = DefaultOutputDir
                /\ pc = "classify"
                /\ visited = {}
                /\ domain = <<>>
                /\ queue = <<>>
                /\ external_urls = {}
                /\ policy = <<>>
                /\ files = {}
                /\ fetched = <<>>
                /\ failed = {}
                /\ discarded = <<>>
                /\ events = <<>>
                /\ builds = 0
                /\ calls = 0
                /\ urls = {}
                /\ csp_out = <<>>
                /\ cls_url \in ClassifyPool
                /\ cls_out = <<>>

\* categorize_resource(cls_url) is called, for the first time or again.
Classify == /\ pc \in {"classify", "classified"}
            /\ cls_out' = categorize_resource(cls_url)
            /\ pc' = "classified"
            /\ UNCHANGED <<Crawl, urls, csp_out, cls_url>>

SpecClassify == InitClassify /\ [][Classify]_vars

-----------------------------------------------------------------------------
(* build_csp on its own: a set of external URLs is drawn and built.        *)

BuildPool == {CdnAJs, ImgBPng, FontsCWoff2, ApiDataJson, XNetCss, XNetCssSecure, NotExampleXJs, NotExampleHome}

\* The largest set of URLs build_csp is given.
MaxUrls == 4

InitBuild == /\ web = 1
             /\ base_url = ExampleSeed
             /\ max_pages = DefaultMaxPages
             /\ output_dir = DefaultOutputDir
             /\ pc = "build"
             /\ visited = {}
             /\ domain = <<>>
             /\ queue = <<>>
             /\ external_urls = {}
             /\ policy = <<>>
             /\ files = {}
             /\ fetched = <<>>
             /\ failed = {}
             /\ discarded = <<>>
             /\ events = <<>>
             /\ builds = 0
             /\ calls = 0
             /\ urls \in {S \in SUBSET BuildPool : Cardinality(S) <= MaxUrls}
             /\ csp_out = <<>>
             /\ cls_url = <<>>
             /\ cls_out = <<>>

\* build_csp(urls) is called; the set yields its URLs in some order.
Build == /\ pc = "build"
         /\ \E order \in Orders(urls) : csp_out' = build_csp(order)
         /\ pc' = "built"
         /\ UNCHANGED <<Crawl, urls, cls_url, cls_out>>

SpecBuild == InitBuild /\ [][Build]_vars

-----------------------------------------------------------------------------
(* Properties of the crawl                                                 *)

\* C1: in every state of a crawl, the number of fetch attempts made so far (the
\* calls of fetch_html, each of which follows one addition to visited) is at
\* most max_pages.
FetchAttemptsBounded == pc \in {"loop", "done"} => Len(fetched) <= max_pages /\ Len(fetched) = Cardinality(visited)

\* A crawl of the looping web that has used up its page budget while URLs are still queued.
BudgetExhaustedWitness == pc = "loop" /\ web = 3 /\ max_pages > 1 /\ Len(fetched) = max_pages /\ queue # <<>>

\* C2: no URL is fetched twice in a crawl: the fetched URLs are pairwise distinct,
\* each is in visited from its fetch on, whether the fetch failed or not, and a
\* copy popped and discarded is a URL fetched earlier.
NoDuplicateFetch == /\ \A i, j \in DOMAIN fetched : fetched[i] = fetched[j] => i = j
                    /\ \A i \in DOMAIN fetched : fetched[i] \in visited
                    /\ \A i \in DOMAIN discarded : \E j \in DOMAIN fetched : fetched[j] = discarded[i]

\* A URL that was queued twice: its first copy was fetched and the fetch failed,
\* its second copy was popped and discarded.
DuplicateDiscardedWitness == \E i \in DOMAIN discarded : discarded[i] \in failed

\* C3: the crawl loop terminates; when it has, the queue is empty or visited has
\* reached max_pages, and build_csp has been called once, on external_urls.
CrawlTerminates == /\ <>(pc = "done")
                   /\ [](pc = "done" => /\ queue = <<>> \/ Cardinality(visited) >= max_pages
                                        /\ builds = 1
                                        /\ \E order \in Orders(external_urls) : policy = build_csp(order))

\* A crawl that ended on its page budget with URLs still queued and external URLs found.
StoppedOnBudgetWitness == pc = "done" /\ queue # <<>> /\ Cardinality(visited) = max_pages /\ external_urls # {}

\* C4: a step whose fetch fails changes neither external_urls nor the rest of the
\* queue, keeps the URL in visited and stays in the loop; after a failed fetch the
\* crawl still ends with its policy built.
FailedFetchNotFatal == /\ [][failed' # failed /\ pc = "loop" => /\ external_urls' = external_urls
                                                               /\ queue' = Tail(queue)
                                                               /\ Head(queue) \in visited'
                                                               /\ pc' = "loop"]_vars
                       /\ [](failed # {} => <>(pc = "done" /\ builds = 1))

\* A finished crawl in which a fetch failed and a later fetch yielded a page.
ContinuedAfterFailureWitness == pc = "done" /\ \E i, j \in DOMAIN fetched : i < j /\ fetched[i] \in failed /\ fetched[j] \notin failed

\* Whether a policy holds the item key: value.
PolicyHas(dict, key, value) == \E i \in DOMAIN dict : dict[i] = <<key, value>>

\* C5: the crawl of the end-to-end web from https://example.com with max_pages = 25
\* and no failed fetch returns a policy with script-src ['self', cdn.other.com],
\* img-src ['self', img.other.com] and font-src ['self', fonts.other.com].
EndToEndPolicy == (pc = "done" /\ web = 1 /\ base_url = ExampleSeed /\ max_pages = DefaultMaxPages /\ failed = {}) => /\ PolicyHas(policy, SCRIPT_SRC, <<SELF, HostCdn>>)
                                                                                                                     /\ PolicyHas(policy, IMG_SRC, <<SELF, HostImg>>)
                                                                                                                     /\ PolicyHas(policy, FONT_SRC, <<SELF, HostFonts>>)

\* The end-to-end crawl has returned after fetching the seed page and page2.
EndToEndWitness == pc = "done" /\ web = 1 /\ max_pages = DefaultMaxPages /\ failed = {} /\ fetched = <<ExampleSeed, ExamplePage2>>

\* C6: after the crawl of the boundary web from https://example.com has fetched
\* the seed page, which loads https://notexample.com/x.js, that URL is in
\* external_urls and the policy lists notexample.com under script-src.
OriginBoundaryListed == (pc = "done" /\ web = 2 /\ base_url = ExampleSeed /\ Len(fetched) > 0 /\ ExampleSeed \notin failed) => /\ NotExampleXJs \in external_urls
                                                                                                                            /\ \E i \in DOMAIN policy : policy[i][1] = SCRIPT_SRC /\ \E j \in DOMAIN policy[i][2] : policy[i][2][j] = HostNotExample

\* The number of times 'self' occurs in an origin list.
SelfCount(origins) == Cardinality({j \in DOMAIN origins : origins[j] = SELF})

\* C7: every directive of a policy built by build_csp, called on its own or at the
\* end of a crawl, lists 'self' exactly once.
SelfExactlyOnce == \A dict \in {csp_out, policy} : \A i \in DOMAIN dict : SelfCount(dict[i][2]) = 1

\* build_csp has returned a policy of at least two directives.
SelfWitness == pc = "built" /\ Len(csp_out) >= 2

\* The host of each URL build_csp is tried on.
HostOf(u) == CASE u = CdnAJs -> HostCdn [] u = ImgBPng -> HostImg [] u = FontsCWoff2 -> HostFonts [] u = ApiDataJson -> HostApi [] u \in {XNetCss, XNetCssSecure} -> HostXNet [] u \in {NotExampleXJs, NotExampleHome} -> HostNotExample

\* C8: build_csp(urls) has one item for each directive some URL of urls classifies
\* to and no other; the item's value is the strictly increasing (sorted and
\* duplicate-free) list of the hosts of the URLs of that directive and 'self'; the
\* policy of the empty set is empty.
BuildMatchesReference == pc = "built" => /\ \A i, j \in DOMAIN csp_out : csp_out[i][1] = csp_out[j][1] => i = j
                                         /\ DictKeys(csp_out) = {categorize_resource(u) : u \in urls}
                                         /\ \A i \in DOMAIN csp_out : /\ {csp_out[i][2][j] : j \in DOMAIN csp_out[i][2]} = {HostOf(u) : u \in {x \in urls : categorize_resource(x) = csp_out[i][1]}} \cup {SELF}
                                                                      /\ \A j \in 1..(Len(csp_out[i][2]) - 1) : StrLess(csp_out[i][2][j], csp_out[i][2][j + 1])
                                         /\ (urls = {} => csp_out = <<>>)
                                         /\ ({XNetCss, XNetCssSecure} \subseteq urls => PolicyHas(csp_out, STYLE_SRC, <<SELF, HostXNet>>))

\* build_csp has returned for a set with the http and the https URL of one host
\* and two scripts of different hosts.
SameHostWitness == pc = "built" /\ {XNetCss, XNetCssSecure, CdnAJs, NotExampleXJs} \subseteq urls

\* The rules of the classifier, in order: the extensions of each and its directive.
ClassifierRules == <<<<{<<"j", "s">>}, SCRIPT_SRC>>, <<{<<"c", "s", "s">>}, STYLE_SRC>>, <<{<<"w", "o", "f", "f">>, <<"w", "o", "f", "f", "2">>, <<"t", "t", "f">>, <<"o", "t", "f">>}, FONT_SRC>>, <<{<<"j", "p", "g">>, <<"j", "p", "e", "g">>, <<"p", "n", "g">>, <<"g", "i", "f">>, <<"s", "v", "g">>, <<"w", "e", "b", "p">>}, IMG_SRC>>, <<{<<"j", "s", "o", "n">>}, CONNECT_SRC>>>>

\* Whether a prefix of u that is all of u, or is followed by '?', ends with '.' and an extension of rule r.
RuleHolds(r, u) == \E e \in ClassifierRules[r][1] : \E k \in (Len(e) + 1)..Len(u) : /\ SubSeq(u, k - Len(e), k) = <<".">> \o e
                                                                                  /\ (k = Len(u) \/ u[k + 1] = "?")

\* The directive of the first rule that holds of u, default-src if none does.
FirstRule(u) == LET R == {r \in DOMAIN ClassifierRules : RuleHolds(r, u)} IN IF R = {} THEN DEFAULT_SRC ELSE ClassifierRules[CHOOSE r \in R : \A s \in R : r <= s][2]

\* C9: categorize_resource(url) is the directive of the first rule, in the order
\* js, css, fonts, images, json, whose extension ends url or stands right before a
\* '?', and default-src if there is none; the five examples of the specification
\* classify as it says.
ClassifierFollowsRules == pc = "classified" => /\ cls_out = FirstRule(cls_url)
                                               /\ (cls_url \in {ExAppJs, ExAppJsQuery} => cls_out = SCRIPT_SRC)
                                               /\ (cls_url = ExWoff2 => cls_out = FONT_SRC)
                                               /\ (cls_url = ExDataJson => cls_out = CONNECT_SRC)
                                               /\ (cls_url = ExPage => cls_out = DEFAULT_SRC)

\* A URL that two rules hold of has been classified: a .css before '?' and a .js at the end.
SeveralRulesWitness == pc = "classified" /\ RuleHolds(1, cls_url) /\ RuleHolds(2, cls_url) /\ cls_out = SCRIPT_SRC

\* C10: at the entry of the loop of every spider_and_audit call, before any URL is
\* popped, the queue is [base_url] and visited and external_urls are empty.
CrawlStartsFresh == (pc = "loop" /\ fetched = <<>> /\ discarded = <<>>) => queue = <<base_url>> /\ visited = {} /\ external_urls = {}

-----------------------------------------------------------------------------
(* Properties of main                                                      *)

\* Whether a --url value is a usable seed: an http or https URL with a host.
ValidSeed(url) == urlparse(url).scheme \in {<<"h", "t", "t", "p">>, <<"h", "t", "t", "p", "s">>} /\ urlparse(url).netloc # <<>>

\* A run whose arguments hold a configuration error.
ConfigError == ~ValidSeed(base_url) \/ ~Creatable(output_dir)

\* C11: a run with an invalid seed URL or a non-creatable output directory makes
\* no fetch attempt and does not run to its normal exit: the error ends the run
\* before the first fetch.
StartupFailureBeforeCrawl == ConfigError => fetched = <<>> /\ pc # "exit"

\* C12: a run with an invalid seed URL or a non-creatable output directory writes
\* neither csp_policy.json nor web.config.
NoFilesOnConfigError == ConfigError => files = {}

-----------------------------------------------------------------------------
(* Further properties of the crawl                                         *)

\* C13: between two successive fetch attempts of a crawl there is a call of
\* sleep: every fetch that is followed by another event is followed by a sleep.
DelayBetweenFetches == \A i \in 1..(Len(events) - 1) : events[i] = "fetch" => events[i + 1] = "sleep"

\* The URLs of a sequence.
Range(seq) == {seq[i] : i \in DOMAIN seq}

\* C14: every URL in the queue or in visited other than the seed has the netloc
\* of the seed, character for character, and neither query nor fragment; every
\* URL fetched has the seed's netloc, and https://notexample.com/ is never fetched.
SameHostNoQuery == /\ \A u \in (Range(queue) \cup visited) \ {base_url} : /\ urlparse(u).netloc = urlparse(base_url).netloc
                                                                         /\ urlparse(u).query = <<>>
                                                                         /\ urlparse(u).fragment = <<>>
                   /\ \A u \in Range(fetched) : urlparse(u).netloc = urlparse(base_url).netloc
                   /\ NotExampleHome \notin Range(fetched)

\* The crawl of the boundary web has fetched the seed page, which links to
\* https://notexample.com/ and to /about?x=1#top, and then https://example.com/about.
SameHostWitnessAbout == pc = "done" /\ web = 2 /\ fetched = <<ExampleSeed, ExampleAbout>> /\ failed = {}

\* C15: an iteration of the loop keeps the rest of the queue and appends to its back
\* only URLs that are not in visited at that moment, visited holding the URL
\* just popped; what a successful fetch appends are the page's internal links
\* not in visited.
NoVisitedEnqueued == [][pc = "loop" /\ pc' = "loop" => /\ \A i \in 1..(Len(queue) - 1) : i <= Len(queue') /\ queue'[i] = queue[i + 1]
                                                       /\ \A i \in Len(queue)..Len(queue') : queue'[i] \notin visited' /\ Head(queue) \in visited'
                                                       /\ (fetched' # fetched /\ failed' = failed => {queue'[i] : i \in Len(queue)..Len(queue')} = extract_internal_links(Webs[web][Head(queue)], base_url, domain) \ visited')]_vars

\* A page was fetched that links to itself or to a URL fetched before it.
LinkToVisitedWitness == \E i \in DOMAIN fetched : /\ fetched[i] \notin failed
                                                  /\ extract_internal_links(Webs[web][fetched[i]], base_url, domain) \cap {fetched[j] : j \in 1..i} # {}

\* The pages fetched so far whose fetch yielded content.
Succeeded == Range(fetched) \ failed

\* The internal links the crawler extracts from a fetched page.
LinksOf(p) == extract_internal_links(Webs[web][p], base_url, domain)

\* The URLs within k links of the seed, links followed from pages in Succeeded only.
RECURSIVE Within(_)
Within(k) == IF k = 0 THEN {base_url} ELSE LET W == Within(k - 1) IN W \cup UNION {LinksOf(p) : p \in W \cap Succeeded}

\* The link-distance of a fetched URL from the seed.
Dist(u) == CHOOSE k \in 0..Len(fetched) : u \in Within(k) /\ (k = 0 \/ u \notin Within(k - 1))

\* C16: the fetched URLs are in non-decreasing order of their link-distance from
\* the seed, the distance counted through the pages fetched successfully: no URL
\* at distance d + 1 is fetched before a URL at distance d.
BreadthFirst == \A i, j \in DOMAIN fetched : i < j => /\ fetched[i] \in Within(Len(fetched))
                                                      /\ Dist(fetched[i]) <= Dist(fetched[j])

\* A finished crawl that fetched the seed, three URLs at distance 1 and then one at distance 2.
ThreeLevelsWitness == /\ pc = "done"
                      /\ Len(fetched) = 5
                      /\ Dist(fetched[1]) = 0
                      /\ Dist(fetched[4]) = 1
                      /\ Dist(fetched[5]) = 2

\* C17: what a successful fetch of page P appends to the queue are the links of
\* P resolved against P's own URL, then tested for the seed's host and for
\* visited: a relative reference is joined to the URL of the page that holds it.
ResolvedAgainstPage == [][pc = "loop" /\ pc' = "loop" /\ fetched' # fetched /\ failed' = failed => {queue'[i] : i \in Len(queue)..Len(queue')} = extract_internal_links(Webs[web][Head(queue)], Head(queue), domain) \ visited']_vars

\* Whether every fetch of a URL that answers with a page has yielded the page:
\* the only failed fetches are of URLs that never yield content.
EveryPageAnswered == \A u \in failed : IF u \in DOMAIN Webs[web] THEN Webs[web][u] = <<>> ELSE TRUE

\* The external URLs collected by the crawl that appends the links of each page
\* in sorted order, every URL that answers with a page yielding it.
RECURSIVE SortedCrawl(_, _, _)
SortedCrawl(q, seen, ext) == IF q = <<>> \/ Cardinality(seen) >= max_pages THEN ext
                             ELSE IF Head(q) \in seen THEN SortedCrawl(Tail(q), seen, ext)
                             ELSE IF Falsy(CHOOSE html \in fetch_html(Head(q)) : html # None \/ fetch_html(Head(q)) = {None}) THEN SortedCrawl(Tail(q), seen \cup {Head(q)}, ext)
                             ELSE SortedCrawl(Tail(q) \o sorted(NewLinks(LinksOf(Head(q)), seen \cup {Head(q)})), seen \cup {Head(q)}, ext \cup extract_external_urls(Webs[web][Head(q)], domain))

\* C18: a finished crawl in which every page answered has the external URLs, and
\* the policy (as a mapping), of the crawl of the same site, seed and max_pages
\* that appends the links of each page in sorted order: the order of appending
\* does not change the result.
OrderInsensitive == (pc = "done" /\ EveryPageAnswered) => /\ external_urls = SortedCrawl(<<base_url>>, {}, {})
                                                          /\ Range(policy) = Range(build_csp(sorted(SortedCrawl(<<base_url>>, {}, {}))))

\* C19: the keys of the dictionary build_csp returns are in sorted order,
\* whatever the order in which the URLs were classified.
KeysSorted == pc = "built" => \A i \in 1..(Len(csp_out) - 1) : StrLess(csp_out[i][1], csp_out[i + 1][1])

\* C20: external_urls only grows during a crawl; each URL in it matched in the
\* content of a page fetched successfully and has a netloc that is neither empty
\* nor the seed's; the returned policy of a seed with a host lists that host
\* under no directive.
ExternalOnlyGrows == /\ [][external_urls \subseteq external_urls']_vars
                     /\ [](\A u \in external_urls : /\ \E p \in Succeeded : u \in findall_urls(Webs[web][p])
                                                   /\ urlparse(u).netloc # <<>>
                                                   /\ urlparse(u).netloc # urlparse(base_url).netloc)
                     /\ [](pc = "done" /\ urlparse(base_url).netloc # <<>> => \A i \in DOMAIN policy : \A j \in DOMAIN policy[i][2] : policy[i][2][j] # urlparse(base_url).netloc)

\* The end-to-end crawl has returned with the external URLs of both its pages,
\* the seed page holding a URL of the seed's own host as well.
ExternalGrownWitness == /\ pc = "done"
                        /\ web = 1
                        /\ external_urls = {CdnAJs, ImgBPng, FontsCWoff2}
                        /\ ExamplePage2 \in findall_urls(Webs[web][ExampleSeed])

====
